---------------------------- MODULE Spec2Model ----------------------------
(***************************************************************************)
(* A model of green_cli: the authenticators of authenticator.py (the      *)
(* mnemonic file, the PIN data file, login, create, setmnemonic, setpin,  *)
(* the device actions) and the auth handler resolver of green.py          *)
(* (_gdk_resolve, with_login and the commands that use them).             *)
(*                                                                         *)
(* The gdk (greenaddress), wallycore and hwilib are external: a call into  *)
(* them is modelled by its arguments and by a value that names them, and   *)
(* the status a pending auth handler reports after each call is chosen by  *)
(* the backend, that is, nondeterministically.                             *)
(***************************************************************************)
EXTENDS Integers, Sequences, FiniteSets, TLC

(***************************************************************************)
(* Bounds.                                                                 *)
(***************************************************************************)
\* the longest phrase, in characters, a user passes to setmnemonic
MaxLen == 3
\* the most statuses one run of the resolver reads: the backend ends the
\* action (done or error) at the latest with the MaxIter-th
MaxIter == 4

(***************************************************************************)
(* Text: a phrase is a sequence of characters; "a" is a letter and " ",     *)
(* "\n" are whitespace.                                                    *)
(***************************************************************************)
Letters == {"a"}
Whitespace == {" ", "\n"}
Chars == Letters \cup Whitespace

RECURSIVE SeqsUpTo(_, _)
SeqsUpTo(S, n) ==
    IF n = 0 THEN {<<>>}
    ELSE LET shorter == SeqsUpTo(S, n - 1)
         IN  shorter \cup {Append(s, c) : s \in {t \in shorter : Len(t) = n - 1}, c \in S}

\* what a user can type as the mnemonic argument
RawPhrases == SeqsUpTo(Chars, MaxLen)

\* str.split(): the maximal runs of non-whitespace characters, in order
RECURSIVE SplitFrom(_, _, _)
SplitFrom(s, i, word) ==
    IF i > Len(s) THEN (IF word = <<>> THEN <<>> ELSE <<word>>)
    ELSE IF s[i] \in Whitespace
         THEN (IF word = <<>> THEN <<>> ELSE <<word>>) \o SplitFrom(s, i + 1, <<>>)
         ELSE SplitFrom(s, i + 1, Append(word, s[i]))

split(s) == SplitFrom(s, 1, <<>>)

\* ' '.join(words)
RECURSIVE join(_)
join(words) ==
    IF words = <<>> THEN <<>>
    ELSE IF Len(words) = 1 THEN words[1]
    ELSE words[1] \o <<" ">> \o join(Tail(words))

\* (mutant) the phrase is used as typed
Normalise_identity(s) == s

\* ' '.join(mnemonic.split())
Normalise(s) == join(split(s))

\* the phrases the gdk's checksum validation accepts: the check itself is the
\* gdk's, it is stood for by a fixed set of phrases
ValidPhrases == {<<"a">>, <<"a", " ", "a">>}

\* (mutant) the result of the validation is ignored
validate_mnemonic_any(p) == TRUE

validate_mnemonic(p) == p \in ValidPhrases

\* gdk.generate_mnemonic() returns some valid phrase
GeneratedPhrases == ValidPhrases

(***************************************************************************)
(* Files.  A file is absent, or has a content and a mode: "r" is           *)
(* stat.S_IRUSR (owner read only), "rw" is the mode of a file open() has   *)
(* just created.                                                           *)
(***************************************************************************)
NoFile == [exists |-> FALSE, content |-> <<>>, mode |-> "none"]
File(c, m) == [exists |-> TRUE, content |-> c, mode |-> m]

\* (mutant) a read never fails
Readable_always(f) == TRUE

\* open(filename).read() raises IOError on a file that does not exist
Readable(f) == f.exists

\* (mutant) the write permission is not looked at
OpenWriteRefused_never(f) == FALSE

\* open(filename, 'w') raises PermissionError on a file that exists and is not
\* writable
OpenWriteRefused(f) == f.exists /\ f.mode # "rw"

\* open(filename, 'w').write(text): a new file is created writable, an existing
\* writable file keeps its mode
Written(f, text) == File(text, IF f.exists THEN f.mode ELSE "rw")

\* (mutant) the mode is left as it is
Chmod_noop(f, m) == f

\* os.chmod(filename, stat.S_IRUSR)
Chmod(f, m) == [f EXCEPT !.mode = m]

\* (mutant) the setter of _mnemonic writes nothing
Stored_nothing(f, mnemonic) == f

\* MnemonicOnDisk._mnemonic setter: the file after a store that is not refused
Stored(f, mnemonic) == Chmod(Written(f, mnemonic), "r")


(***************************************************************************)
(* Results of a call that may raise.                                       *)
(***************************************************************************)
Ok(v) == [ok |-> TRUE, error |-> "", value |-> v]
Raise(e) == [ok |-> FALSE, error |-> e, value |-> <<>>]

(***************************************************************************)
(* Keys and signatures (WallyAuthenticator, HWIDevice).  A key is named by *)
(* the seed it comes from and the chain of child indices that leads to it; *)
(* a signature by the key and what was signed.                             *)
(***************************************************************************)
Auths == {"default", "wally", "hardware"}

\* wally.bip32_key_from_seed(wally.bip39_mnemonic_to_seed512(mnemonic))
master_key(mnemonic) == [seed |-> mnemonic, chain |-> <<>>]

\* wally.bip32_key_from_parent_path: one child derivation per index of the path
RECURSIVE bip32_key_from_parent_path(_, _)
bip32_key_from_parent_path(key, path) ==
    IF path = <<>> THEN key
    ELSE bip32_key_from_parent_path([key EXCEPT !.chain = Append(@, Head(path))], Tail(path))

\* (mutant) the path is not followed
derive_key_master(mnemonic, path) == master_key(mnemonic)

\* WallyAuthenticator.derive_key
derive_key(mnemonic, path) ==
    IF path = <<>> THEN master_key(mnemonic)
    ELSE bip32_key_from_parent_path(master_key(mnemonic), path)

\* HWIDevice._path_to_string: 'm' followed by the indices
_path_to_string(path) == <<"m">> \o path

\* (mutant) a mnemonic file that cannot be read is passed over
get_xpub_quiet(auth, mf, path) ==
    IF auth = "wally"
    THEN Ok([xpub |-> derive_key(IF Readable(mf) THEN mf.content ELSE <<>>, path)])
    ELSE Ok([xpub |-> [device |-> "hwi", path |-> _path_to_string(path)]])

\* get_xpub of the variant: wally reads the mnemonic file at every call,
\* the hardware variant asks the device
get_xpub(auth, mf, path) ==
    IF auth = "wally"
    THEN IF Readable(mf) THEN Ok([xpub |-> derive_key(mf.content, path)]) ELSE Raise("IOError")
    ELSE Ok([xpub |-> [device |-> "hwi", path |-> _path_to_string(path)]])

\* the loop of HardwareDevice.resolve over the requested paths
RECURSIVE xpubs_from(_, _, _, _)
xpubs_from(auth, mf, paths, xpubs) ==
    IF paths = <<>> THEN Ok([xpubs |-> xpubs])
    ELSE LET x == get_xpub(auth, mf, Head(paths))
         IN  IF x.ok THEN xpubs_from(auth, mf, Tail(paths), Append(xpubs, x.value)) ELSE x

\* sign_message of the variant, then hex_from_bytes
sign_message(auth, mf, path, message) ==
    IF auth = "wally"
    THEN IF Readable(mf)
         THEN Ok([signature |-> [key |-> derive_key(mf.content, path), signed |-> <<"message", message>>]])
         ELSE Raise("IOError")
    ELSE Ok([signature |-> [key |-> [device |-> "hwi", path |-> _path_to_string(path)],
                            signed |-> <<"message", message>>]])

SegwitScriptTypes == {14, 15, 159, 162}
WALLY_SIGHASH_ALL == 1

\* (mutant) every input is taken for a segwit input
is_segwit_any(utxo) == TRUE

\* is_segwit = utxo['script_type'] in [14, 15, 159, 162]
is_segwit(utxo) == utxo.script_type \in SegwitScriptTypes

\* the loop of WallyAuthenticator.sign_tx from input number i (1-based here,
\* enumerate's index is i - 1): the first input that is not segwit raises, and
\* a segwit input needs the private key, which is read from the mnemonic file
RECURSIVE sign_from(_, _, _, _)
sign_from(mf, utxos, i, signatures) ==
    IF i > Len(utxos) THEN Ok([signatures |-> signatures])
    ELSE IF ~is_segwit(utxos[i]) THEN Raise("NotImplementedError")
    ELSE IF ~Readable(mf) THEN Raise("IOError")
    ELSE sign_from(mf, utxos, i + 1,
            Append(signatures,
                   [key |-> derive_key(mf.content, utxos[i].user_path),
                    signed |-> <<"tx", i - 1, utxos[i].prevout_script, utxos[i].satoshi>>,
                    sighash |-> WALLY_SIGHASH_ALL]))

\* (mutant) only the used inputs are looked at
utxos_of_used(details) == details.used_utxos

\* utxos = txdetails['used_utxos'] or txdetails['old_used_utxos']
utxos_of(details) ==
    IF details.used_utxos # <<>> THEN details.used_utxos ELSE details.old_used_utxos

\* (mutant) the hardware variant answers with no signatures
sign_tx_empty(auth, mf, details) ==
    IF auth = "wally" THEN sign_from(mf, utxos_of(details), 1, <<>>)
    ELSE Ok([signatures |-> <<>>])

\* sign_tx of the variant: HWIDevice.sign_tx raises
sign_tx(auth, mf, details) ==
    IF auth = "wally" THEN sign_from(mf, utxos_of(details), 1, <<>>)
    ELSE Raise("NotImplementedError")

\* (mutant) every device request is taken to the hardware wallet
DeviceAsked_always(auth, st) == TRUE

\* resolving the request exchanges messages with the hardware wallet:
\* hwilib.commands.getxpub for each path, hwilib.commands.signmessage
DeviceAsked(auth, st) ==
    /\ auth = "hardware"
    /\ \/ st.required_data.action = "get_xpubs" /\ st.required_data.paths # <<>>
       \/ st.required_data.action = "sign_message"

\* context.authenticator.resolve(status): HardwareDevice.resolve for the wally
\* and hardware variants; DefaultAuthenticator has no resolve attribute
authenticator_resolve(auth, mf, st) ==
    LET details == st.required_data IN
    IF auth = "default" THEN Raise("AttributeError")
    ELSE IF details.action = "get_xpubs" THEN xpubs_from(auth, mf, details.paths, <<>>)
    ELSE IF details.action = "sign_message"
         THEN sign_message(auth, mf, details.path, details.message)
    ELSE IF details.action = "sign_tx" THEN sign_tx(auth, mf, details)
    ELSE Raise("NotImplementedError")

(***************************************************************************)
(* HWIDevice.get_device: the hardware wallets hwi enumerates.  A device is *)
(* a record of its type and path, with an error entry when hwi could not   *)
(* open it.                                                                *)
(***************************************************************************)
NoDevice == [type |-> "", path |-> ""]
Ledger == [type |-> "ledger", path |-> "0001"]
Trezor == [type |-> "trezor", path |-> "0002"]
Locked == [type |-> "ledger", path |-> "0001", error |-> "locked"]

\* what hwilib.commands.enumerate() may return
Enumerations == {<<>>, <<Ledger>>, <<Trezor>>, <<Locked>>, <<Ledger, Trezor>>, <<Locked, Trezor>>}

\* (mutant) the first device enumerated is taken
get_device_first(enumerated) ==
    IF Len(enumerated) = 0 THEN Raise("NoDevices") ELSE Ok(enumerated[1])

\* HWIDevice.get_device
get_device(enumerated) ==
    IF Len(enumerated) = 0 THEN Raise("NoDevices")
    ELSE IF Len(enumerated) > 1 THEN Raise("NotImplementedError")
    ELSE IF "error" \in DOMAIN enumerated[1] THEN Raise("DeviceError")
    ELSE Ok(enumerated[1])

\* get_authenticator(auth, config_dir): the authenticator of the context, or
\* the exception that ends the process before it has a context
get_authenticator(a, enumerated) ==
    IF a = "hardware"
    THEN LET got == get_device(enumerated) IN
         IF got.ok THEN [auth |-> a, device |-> got.value, error |-> ""]
         ELSE [auth |-> "none", device |-> NoDevice, error |-> got.error]
    ELSE [auth |-> a, device |-> NoDevice, error |-> ""]

(***************************************************************************)
(* The Two-Factor Resolver (console).                                      *)
(***************************************************************************)
\* what the user may type at "Select factor: ": an integer, or something
\* int() rejects
Selections == {[numeric |-> TRUE, n |-> k] : k \in -3..2} \cup {[numeric |-> FALSE, n |-> 0]}

\* (mutant) an index past the end selects the last factor
select_auth_factor_clamped(factors, typed) ==
    IF Len(factors) > 1
    THEN IF ~typed.numeric THEN Raise("ValueError")
         ELSE IF typed.n < -Len(factors) THEN Raise("IndexError")
         ELSE IF typed.n >= Len(factors) THEN Ok(factors[Len(factors)])
         ELSE Ok(factors[IF typed.n >= 0 THEN typed.n + 1 ELSE Len(factors) + typed.n + 1])
    ELSE IF factors = <<>> THEN Raise("IndexError") ELSE Ok(factors[1])

\* TwoFactorResolver.select_auth_factor; factors[k] is Python's indexing,
\* where -len..-1 count from the end
select_auth_factor(factors, typed) ==
    IF Len(factors) > 1
    THEN IF ~typed.numeric THEN Raise("ValueError")
         ELSE IF typed.n >= Len(factors) \/ typed.n < -Len(factors) THEN Raise("IndexError")
         ELSE Ok(factors[IF typed.n >= 0 THEN typed.n + 1 ELSE Len(factors) + typed.n + 1])
    ELSE IF factors = <<>> THEN Raise("IndexError") ELSE Ok(factors[1])

\* (mutant) the choice is shown whatever the list
Prompts_always(factors) == TRUE

\* select_auth_factor prints the factors and calls input() for a list of more
\* than one
Prompts(factors) == Len(factors) > 1

\* what the user may type as a 2fa code
Codes == {"000000", "123456"}

\* TwoFactorResolver.resolve returns what the user typed
twofac_resolve(st, typed) == Ok(typed)

(***************************************************************************)
(* The statuses a pending action (GA_auth_handler) reports.                *)
(***************************************************************************)
NoData == [action |-> "", paths |-> <<>>, path |-> <<>>, message |-> "",
           used_utxos |-> <<>>, old_used_utxos |-> <<>>]
Blank == [status |-> "none", result |-> "", error |-> "", methods |-> <<>>,
          device |-> FALSE, action |-> "", method |-> "", attempts_remaining |-> 0,
          required_data |-> NoData]

Results == {"r1", "r2"}
MethodLists == {<<>>, <<"sms">>, <<"sms", "gauth">>}
Paths == {<<>>, <<1>>, <<1, 2>>}
PathLists == {<<>>, <<<<1>>>>, <<<<1, 2>>, <<>>, <<1, 2>>>>}

UtxoA == [script_type |-> 14, prevout_script |-> "s1", satoshi |-> 1, user_path |-> <<1>>]
UtxoB == [script_type |-> 162, prevout_script |-> "s2", satoshi |-> 2, user_path |-> <<1, 2>>]
UtxoC == [script_type |-> 10, prevout_script |-> "s3", satoshi |-> 3, user_path |-> <<1>>]
\* the (used_utxos, old_used_utxos) pairs of the sign_tx requests
UtxoLists ==
    {<<<<UtxoA>>, <<>>>>, <<<<UtxoA, UtxoB>>, <<>>>>, <<<<UtxoB, UtxoA>>, <<>>>>,
     <<<<UtxoC>>, <<>>>>, <<<<UtxoA, UtxoC>>, <<>>>>, <<<<UtxoC, UtxoA>>, <<>>>>,
     <<<<>>, <<UtxoB>>>>, <<<<>>, <<UtxoC>>>>, <<<<UtxoA>>, <<UtxoC>>>>, <<<<>>, <<>>>>}

DeviceRequests ==
    {[NoData EXCEPT !.action = "get_xpubs", !.paths = ps] : ps \in PathLists}
    \cup {[NoData EXCEPT !.action = "sign_message", !.path = p, !.message = "msg"] :
             p \in {<<>>, <<1, 2>>}}
    \cup {[NoData EXCEPT !.action = "sign_tx", !.used_utxos = u[1], !.old_used_utxos = u[2]] :
             u \in UtxoLists}
    \cup {[NoData EXCEPT !.action = a] : a \in {"get_receive_address", "get_blinding_key"}}

DoneStatuses == {[Blank EXCEPT !.status = "done", !.result = r] : r \in Results}
ErrorStatuses == {[Blank EXCEPT !.status = "error", !.error = "id_invalid_twofactor_code"]}
RequestCodeStatuses ==
    {[Blank EXCEPT !.status = "request_code", !.methods = m, !.action = "login"] : m \in MethodLists}
TwoFactorStatuses ==
    {[Blank EXCEPT !.status = "resolve_code", !.action = "login", !.method = "sms",
                   !.attempts_remaining = 3]}
DeviceStatuses ==
    {[Blank EXCEPT !.status = "resolve_code", !.device = TRUE, !.action = rd.action,
                   !.required_data = rd] : rd \in DeviceRequests}
CallStatuses == {[Blank EXCEPT !.status = "call"]}
\* a status whose state is none of the five _gdk_resolve names
OtherStatuses == {[Blank EXCEPT !.status = "pending"]}

TerminalStatuses == DoneStatuses \cup ErrorStatuses
Statuses == TerminalStatuses \cup RequestCodeStatuses \cup TwoFactorStatuses
            \cup DeviceStatuses \cup CallStatuses \cup OtherStatuses

(***************************************************************************)
(* State.                                                                  *)
(***************************************************************************)
VARIABLES
    auth,           \* the authenticator get_authenticator made for this process, "none"
                    \* when it raised and the process has no context
    devices,        \* what hwi enumerated when the process started (--auth hardware)
    device,         \* HWIDevice.details: the device the hardware authenticator is for
    logged_in,      \* context.logged_in
    mnemonic_file,  \* <config_dir>/mnemonic
    pin_data_file,  \* <config_dir>/pin_data
    pc,             \* "idle", "body" (with_login is about to call the command) or "resolving"
    cmd,            \* the command that runs, with its arguments
    stage,          \* what the resolver resolves: the "login" or the command's own action ("body")
    reads,          \* the number of statuses _gdk_resolve has read in its current run
    status,         \* the status _gdk_resolve read last
    called,         \* the calls _gdk_resolve made after reading it, in order
    resolution,     \* the value a collaborator returned to the resolver in that iteration:
                    \* [factor |-> ..] from select_auth_factor, [code |-> ..] from the
                    \* Two-Factor Resolver, the authenticator's answer, <<>> for none
    submitted,      \* the value the resolver passed to the backend in that iteration
    resolved,       \* how the run of _gdk_resolve ended; the value it returned is
                    \* [result |-> ..]
    script_pos,     \* history: how many statuses of Script the run has read, if it read
                    \* nothing else; -1 once it has left the script
    trace,          \* history: the calls of the run in order, while it follows Script
    outcome,        \* how the last command ended
    via,            \* the gdk login call the command made: "none", "login" or "login_with_pin"
    sinks,          \* where the command has sent a seed phrase, other than the mnemonic file
    caught,         \* the exceptions the last step caught and went on after, by the call
                    \* that raised them
    passed,         \* what the command passed to gdk.login or gdk.register_user
    selection,      \* what the user typed at "Select factor: " in the last step, in a
                    \* tuple; <<>> when the step did not ask
    waited          \* the inputs the last step blocked on: "select", "code" and "pin" are
                    \* console prompts, "stdin" an argument read from standard input,
                    \* "device" an exchange with the hardware wallet

vars == <<auth, devices, device, logged_in, mnemonic_file, pin_data_file, pc, cmd, stage, reads, status, called,
          resolution, submitted, resolved, script_pos, trace, outcome, via, sinks, caught, passed,
          selection, waited>>

files == <<mnemonic_file, pin_data_file>>
resolver == <<reads, status, called, resolution, submitted, resolved, script_pos, trace>>

NoCmd == [name |-> "none", pin |-> "", phrase |-> <<>>]
NoOutcome == [kind |-> "none", error |-> "", value |-> <<>>]
Returned(v) == [kind |-> "returned", error |-> "", value |-> v]
Raised(e, v) == [kind |-> "raised", error |-> e, value |-> v]

Pins == {"1234"}

\* commands wrapped by with_login
LoginCommands == {"setpin", "signtransaction", "getbalance"}

\* the sequence of states of the scripted run
Script == <<"request_code", "resolve_code", "call", "done">>

\* green() has run get_authenticator for the --auth option
\* hwi enumerates only for --auth hardware
Enumerated(a) == IF a = "hardware" THEN Enumerations ELSE {<<>>}

Init ==
    /\ \E a \in Auths : \E enumerated \in Enumerated(a) :
         LET made == get_authenticator(a, enumerated) IN
         /\ auth = made.auth
         /\ devices = enumerated
         /\ device = made.device
         /\ outcome = IF made.error = "" THEN NoOutcome ELSE Raised(made.error, <<>>)
    /\ logged_in = FALSE
    /\ mnemonic_file = NoFile
    /\ pin_data_file = NoFile
    /\ pc = "idle"
    /\ cmd = NoCmd
    /\ stage = "none"
    /\ reads = 0
    /\ status = Blank
    /\ called = <<>>
    /\ resolution = <<>>
    /\ submitted = <<>>
    /\ resolved = NoOutcome
    /\ script_pos = 0
    /\ trace = <<>>
    /\ via = "none"
    /\ sinks = {}
    /\ caught \in {{}, {"os.makedirs(config_dir)"}}
    /\ selection = <<>>
    /\ passed = [call |-> "none", hw_device |-> <<>>, mnemonic |-> <<>>, password |-> ""]
    /\ waited = IF devices = <<>> /\ auth # "none" THEN {} ELSE {"device"}

(***************************************************************************)
(* Helpers of the actions.                                                 *)
(***************************************************************************)
\* no run of _gdk_resolve yet
FreshResolver ==
    /\ reads' = 0
    /\ status' = Blank
    /\ called' = <<>>
    /\ resolution' = <<>>
    /\ submitted' = <<>>
    /\ resolved' = NoOutcome
    /\ script_pos' = 0
    /\ trace' = <<>>

\* a new run of _gdk_resolve on a handler the backend has just returned
NewHandler(stg) ==
    /\ pc' = "resolving"
    /\ stage' = stg
    /\ FreshResolver

\* no handler
NoHandler ==
    /\ stage' = "none"
    /\ FreshResolver

\* the command ends, by a return or by an exception that reaches click
Ends(o) ==
    /\ pc' = "idle"
    /\ outcome' = o

\* the process has a context, so its commands can run
HasContext == auth \in Auths

\* (mutant) every variant passes the phrase of the mnemonic file
PassesMnemonic_all(a) == TRUE

\* Authenticator.login / register pass self.mnemonic to the gdk: the software
\* variant passes the phrase of the mnemonic file, the device variants ''
PassesMnemonic(a) == a = "default"

\* HardwareDevice.name of the variant: the wally authenticator's fixed name,
\* HWIDevice's '{type}@{path}'
device_name(a, dev) ==
    IF a = "wally" THEN <<"libwally software signer">> ELSE <<dev.type, "@", dev.path>>

\* (mutant) every variant gives the empty descriptor
hw_device_empty(a, dev) == <<>>

\* the hw_device property: json.dumps({}) for the software variant,
\* json.dumps({'device': {'name': self.name}}) for the device variants
hw_device(a, dev) == IF a = "default" THEN <<>> ELSE <<"device", <<"name", device_name(a, dev)>>>>

\* the mnemonic property: the content of the mnemonic file for the software
\* variant, '' for the device variants
mnemonic_of(a, mf) == IF PassesMnemonic(a) THEN mf.content ELSE <<>>

\* the password property, '' in every variant
password == ""

NoCredentials == [call |-> "none", hw_device |-> <<>>, mnemonic |-> <<>>, password |-> ""]

\* gdk.login(session_obj, self.hw_device, self.mnemonic, self.password) and
\* gdk.register_user(session, self.hw_device, self.mnemonic)
Credentials(call, a, dev, mf) ==
    [call |-> call, hw_device |-> hw_device(a, dev), mnemonic |-> mnemonic_of(a, mf),
     password |-> IF call = "login" THEN password ELSE ""]

(***************************************************************************)
(* green(): a new process makes a new context.  The config directory is    *)
(* there from the first process on, and os.makedirs raises FileExistsError,*)
(* which green() catches and passes over.                                  *)
(***************************************************************************)
NewProcess ==
    /\ pc = "idle"
    /\ selection' = <<>>
    /\ \E a \in Auths : \E enumerated \in Enumerated(a) :
         LET made == get_authenticator(a, enumerated) IN
         /\ auth' = made.auth
         /\ devices' = enumerated
         /\ device' = made.device
         /\ outcome' = IF made.error = "" THEN NoOutcome ELSE Raised(made.error, <<>>)
    /\ logged_in' = FALSE
    /\ cmd' = NoCmd
    /\ via' = "none"
    /\ NoHandler
    /\ pc' = "idle"
    /\ sinks' = {}
    /\ caught' = {"os.makedirs(config_dir)"}
    /\ passed' = NoCredentials
    /\ waited' = IF devices' = <<>> /\ auth' # "none" THEN {} ELSE {"device"}
    /\ UNCHANGED files

(***************************************************************************)
(* Commands that need no login.                                            *)
(***************************************************************************)
\* create: SoftwareAuthenticator.create / WallyAuthenticator.create store a
\* mnemonic the gdk generates and then register; HWIDevice has no create
Create ==
    /\ pc = "idle" /\ HasContext
    /\ selection' = <<>>
    /\ via' = "none"
    /\ caught' = {}
    /\ waited' = {}
    /\ UNCHANGED <<auth, devices, device, logged_in, pin_data_file>>
    /\ \E m \in GeneratedPhrases :
        /\ cmd' = [NoCmd EXCEPT !.name = "create", !.phrase = m]
        /\ IF auth = "hardware"
           THEN /\ Ends(Raised("AttributeError", <<>>))
                /\ NoHandler
                /\ sinks' = {}
                /\ passed' = NoCredentials
                /\ UNCHANGED mnemonic_file
           ELSE IF OpenWriteRefused(mnemonic_file)
           THEN /\ Ends(Raised("RefusedOverwrite", <<>>))
                /\ NoHandler
                /\ sinks' = {}
                /\ passed' = NoCredentials
                /\ UNCHANGED mnemonic_file
           ELSE /\ mnemonic_file' = Stored(mnemonic_file, m)
                /\ passed' = Credentials("register_user", auth, device, Stored(mnemonic_file, m))
                /\ sinks' = IF PassesMnemonic(auth) THEN {"backend"} ELSE {}
                /\ outcome' = NoOutcome
                /\ NewHandler("body")

\* register: gdk.register_user with the authenticator's hw_device and mnemonic;
\* the software variant reads the mnemonic file for it
Register ==
    /\ pc = "idle" /\ HasContext
    /\ selection' = <<>>
    /\ via' = "none"
    /\ caught' = {}
    /\ waited' = {}
    /\ cmd' = [NoCmd EXCEPT !.name = "register"]
    /\ UNCHANGED <<auth, devices, device, logged_in, files>>
    /\ IF PassesMnemonic(auth) /\ ~Readable(mnemonic_file)
       THEN /\ Ends(Raised("IOError", <<>>))
            /\ NoHandler
            /\ sinks' = {}
            /\ passed' = NoCredentials
       ELSE /\ sinks' = IF PassesMnemonic(auth) THEN {"backend"} ELSE {}
            /\ passed' = Credentials("register_user", auth, device, mnemonic_file)
            /\ outcome' = NoOutcome
            /\ NewHandler("body")

\* mnemonic = ' '.join(mnemonic.split()), for each phrase that can be typed
Normalised == [raw \in RawPhrases |-> Normalise(raw)]

\* the phrases setmnemonic is run with: every phrase for the authenticator that
\* has setmnemonic; for the others, which raise AttributeError without looking
\* at the phrase, a valid and an invalid one
Typed(a) == IF a = "default" THEN RawPhrases ELSE {<<"a">>, <<" ">>}

\* setmnemonic: the phrase comes from stdin (argument '-'), from the file the
\* argument names or, open() raising IOError, which is caught and passed over,
\* from the argument itself; only SoftwareAuthenticator has setmnemonic.  logging.debug
\* writes the phrase when the command line has --debug.
SetMnemonic ==
    /\ pc = "idle" /\ HasContext
    /\ selection' = <<>>
    /\ via' = "none"
    /\ passed' = NoCredentials
    /\ NoHandler
    /\ UNCHANGED <<auth, devices, device, logged_in, pin_data_file>>
    /\ \E source \in {"stdin", "file", "argument"} :
         /\ waited' = IF source = "stdin" THEN {"stdin"} ELSE {}
         /\ caught' = IF source = "argument" THEN {"open(argument)"} ELSE {}
    /\ \E raw \in Typed(auth) :
      \E debug \in IF auth = "default" /\ validate_mnemonic(Normalised[raw]) THEN BOOLEAN ELSE {FALSE} :
        LET mnemonic == Normalised[raw] IN
        /\ cmd' = [NoCmd EXCEPT !.name = "setmnemonic", !.phrase = raw]
        /\ IF auth # "default"
           THEN /\ Ends(Raised("AttributeError", <<>>))
                /\ sinks' = {}
                /\ UNCHANGED mnemonic_file
           ELSE /\ sinks' = IF debug /\ validate_mnemonic(mnemonic) THEN {"log"} ELSE {}
                /\ IF ~validate_mnemonic(mnemonic)
                   THEN /\ Ends(Raised("InvalidMnemonic", <<>>))
                        /\ UNCHANGED mnemonic_file
                   ELSE IF OpenWriteRefused(mnemonic_file)
                   THEN /\ Ends(Raised("RefusedOverwrite", <<>>))
                        /\ UNCHANGED mnemonic_file
                   ELSE /\ mnemonic_file' = Stored(mnemonic_file, mnemonic)
                        /\ Ends(Returned(<<>>))

(***************************************************************************)
(* with_login: the login a command needs, then the command.                *)
(***************************************************************************)
\* the blob gdk.set_pin returns for a mnemonic and a pin
PinData(mnemonic, pin) == [encrypted |-> mnemonic, pin |-> pin]

\* (mutant) setpin writes no PIN-data file
PinDataWritten_nothing(f, pin_data) == f

\* open(self.pin_data_filename, 'w').write(pin_data)
PinDataWritten(f, pin_data) == Written(f, pin_data)

\* (mutant) login prints nothing before it raises again
CallCreateHint_none == <<>>

\* what DefaultAuthenticator.login prints before it raises the IOError again
CallCreateHint == [printed |-> "Login failed, please call create"]

\* (mutant) with_login logs in whatever the flag
NeedsLogin_always(flag) == TRUE

\* if not context.logged_in
NeedsLogin(flag) == ~flag

WithLogin ==
    /\ pc = "idle" /\ HasContext
    /\ selection' = <<>>
    /\ UNCHANGED <<auth, devices, device, files>>
    /\ \E c \in LoginCommands, pin \in Pins :
        /\ cmd' = [NoCmd EXCEPT !.name = c, !.pin = IF c = "setpin" THEN pin ELSE ""]
        /\ IF ~NeedsLogin(logged_in)
           THEN \* context.logged_in: no login
                /\ pc' = "body"
                /\ via' = "none"
                /\ passed' = NoCredentials
                /\ caught' = {}
                /\ waited' = {}
                /\ outcome' = NoOutcome
                /\ NoHandler
                /\ sinks' = {}
                /\ UNCHANGED logged_in
           ELSE IF PassesMnemonic(auth) /\ ~Readable(mnemonic_file)
           THEN \* DefaultAuthenticator.login: IOError, so try the pin data
                IF ~Readable(pin_data_file)
                THEN /\ Ends(Raised("IOError", CallCreateHint))
                     /\ via' = "none"
                     /\ passed' = NoCredentials
                     /\ caught' = {"open(mnemonic_file)"}
                     /\ waited' = {}
                     /\ NoHandler
                     /\ sinks' = {}
                     /\ UNCHANGED logged_in
                ELSE \* input("PIN: "), gdk.login_with_pin: the backend accepts
                     \* the pin or raises
                     /\ via' = "login_with_pin"
                     /\ passed' = NoCredentials
                     /\ waited' = {"pin"}
                     /\ caught' = {"open(mnemonic_file)"}
                     /\ NoHandler
                     /\ sinks' = {}
                     /\ \E accepted \in BOOLEAN :
                          IF accepted
                          THEN /\ logged_in' = TRUE
                               /\ pc' = "body"
                               /\ outcome' = NoOutcome
                          ELSE /\ Ends(Raised("RuntimeError", <<>>))
                               /\ UNCHANGED logged_in
           ELSE \* Authenticator.login: gdk.login returns an auth handler
                /\ via' = "login"
                /\ passed' = Credentials("login", auth, device, mnemonic_file)
                /\ caught' = {}
                /\ waited' = {}
                /\ sinks' = IF PassesMnemonic(auth) THEN {"backend"} ELSE {}
                /\ outcome' = NoOutcome
                /\ NewHandler("login")
                /\ UNCHANGED logged_in

\* the command with_login wraps, called with the logged in session
RunBody ==
    /\ pc = "body"
    /\ selection' = <<>>
    /\ UNCHANGED <<auth, devices, device, logged_in, cmd, via, passed>>
    /\ CASE cmd.name = "setpin" ->
              /\ UNCHANGED resolver
              /\ caught' = {}
              /\ waited' = {}
              /\ stage' = "none"
              /\ IF auth # "default"
                 THEN /\ Ends(Raised("AttributeError", <<>>))
                      /\ UNCHANGED <<files, sinks>>
                 ELSE IF ~Readable(mnemonic_file)
                 THEN \* self.mnemonic reads the mnemonic file
                      /\ Ends(Raised("IOError", <<>>))
                      /\ UNCHANGED <<files, sinks>>
                 ELSE \* the prints, then gdk.set_pin, which returns or raises
                      /\ sinks' = sinks \cup {"console", "backend"}
                      /\ \E set \in BOOLEAN :
                           IF ~set
                           THEN /\ Ends(Raised("RuntimeError", <<>>))
                                /\ UNCHANGED files
                           ELSE IF OpenWriteRefused(pin_data_file)
                           THEN /\ Ends(Raised("PermissionError", <<>>))
                                /\ UNCHANGED files
                           ELSE LET pin_data == PinData(mnemonic_file.content, cmd.pin) IN
                                /\ pin_data_file' = PinDataWritten(pin_data_file, pin_data)
                                /\ mnemonic_file' = NoFile
                                /\ Ends(Returned(pin_data))
         [] cmd.name = "signtransaction" ->
              \* details.read(), from standard input when the argument is '-';
              \* gdk.sign_transaction returns an auth handler
              /\ \E stdin \in BOOLEAN : waited' = IF stdin THEN {"stdin"} ELSE {}
              /\ caught' = {}
              /\ outcome' = NoOutcome
              /\ NewHandler("body")
              /\ UNCHANGED <<files, sinks>>
         [] OTHER ->
              \* a command that returns what the session returns
              /\ Ends(Returned([result |-> "balance"]))
              /\ caught' = {}
              /\ waited' = {}
              /\ stage' = "none"
              /\ UNCHANGED <<resolver, files, sinks>>

(***************************************************************************)
(* _gdk_resolve: one action per iteration of its loop, by the state read.  *)
(* The status is the backend's: any status, and a terminal one at the      *)
(* latest when the run reads its MaxIter-th status.                        *)
(***************************************************************************)
\* (mutant) the loop reads the status once and never again
AtRead_first == pc = "resolving" /\ reads = 0

\* the loop is at gdk.auth_handler_get_status, after an advancing call or at
\* its first iteration
AtRead == pc = "resolving" /\ (reads = 0 \/ called # <<>>)

\* gdk.auth_handler_get_status returns st
Read(st) ==
    /\ status' = st
    /\ reads' = reads + 1
    /\ script_pos' = IF script_pos = reads /\ reads < Len(Script) /\ st.status = Script[reads + 1]
                     THEN reads + 1 ELSE -1

\* (mutant) the iteration makes its calls twice over
Calls_twice(made) ==
    /\ called' = made \o made
    /\ trace' = IF script_pos' = -1 THEN <<>> ELSE trace \o made \o made

\* the calls the iteration made, it being one of a run that follows Script
Calls(made) ==
    /\ called' = made
    /\ trace' = IF script_pos' = -1 THEN <<>> ELSE trace \o made

\* an exception leaves _gdk_resolve and ends the command
ResolverRaises(e, v) ==
    /\ resolved' = Raised(e, v)
    /\ Ends(Raised(e, v))

\* the iteration got no value from a collaborator and submitted none
Nothing ==
    /\ resolution' = <<>>
    /\ submitted' = <<>>

\* the loop goes on
Loops == UNCHANGED <<pc, outcome, resolved>>

\* (mutant) the error is raised with the status stripped of its error
ErrorPayload_stripped(st) == [st EXCEPT !.error = ""]

\* raise RuntimeError(status)
ErrorPayload(st) == st

\* (mutant) another field of the done status is returned
DoneResult_error(st) == st.error

\* return status['result']
DoneResult(st) == st.result

ResolveError ==
    /\ AtRead
    /\ selection' = <<>>
    /\ caught' = {}
    /\ waited' = {}
    /\ \E st \in ErrorStatuses : Read(st) /\ ResolverRaises("RuntimeError", ErrorPayload(st))
    /\ Calls(<<>>)
    /\ Nothing
    /\ UNCHANGED <<auth, devices, device, logged_in, files, cmd, stage, via, sinks, passed>>

ResolveDone ==
    /\ AtRead
    /\ selection' = <<>>
    /\ caught' = {}
    /\ waited' = {}
    /\ \E st \in DoneStatuses :
        /\ Read(st)
        /\ resolved' = Returned([result |-> DoneResult(st)])
        /\ IF stage = "login"
           THEN \* with_login drops the result and sets the flag
                /\ logged_in' = TRUE
                /\ pc' = "body"
                /\ UNCHANGED outcome
           ELSE /\ Ends(Returned([result |-> DoneResult(st)]))
                /\ UNCHANGED logged_in
    /\ Calls(<<>>)
    /\ Nothing
    /\ UNCHANGED <<auth, devices, device, files, cmd, stage, via, sinks, passed>>

ResolveRequestCode ==
    /\ AtRead /\ reads + 1 < MaxIter
    /\ UNCHANGED <<auth, devices, device, logged_in, files, cmd, stage, via, sinks, passed>>
    /\ \E st \in RequestCodeStatuses, typed \in Selections :
        LET factor == select_auth_factor(st.methods, typed) IN
        /\ Read(st)
        /\ caught' = {}
        /\ waited' = IF Prompts(st.methods) THEN {"select"} ELSE {}
        /\ selection' = IF Prompts(st.methods) THEN <<typed>> ELSE <<>>
        /\ IF factor.ok
           THEN /\ resolution' = [factor |-> factor.value]
                /\ submitted' = [factor |-> factor.value]
                /\ Calls(<<"select_auth_factor", "auth_handler_request_code">>)
                /\ Loops
           ELSE /\ Calls(<<"select_auth_factor">>)
                /\ ResolverRaises(factor.error, <<>>)
                /\ Nothing

\* (mutant) the two branches of resolve_code are swapped
Collaborator_swapped(st) ==
    IF st.device THEN "twofac_resolver.resolve" ELSE "authenticator.resolve"

\* the collaborator a resolve_code status is answered by
Collaborator(st) == IF st.device THEN "authenticator.resolve" ELSE "twofac_resolver.resolve"

\* the value the collaborator of a resolve_code status returned
Resolution(st, v) == IF Collaborator(st) = "twofac_resolver.resolve" THEN [code |-> v] ELSE v

ResolveResolveCode ==
    /\ AtRead /\ reads + 1 < MaxIter
    /\ selection' = <<>>
    /\ UNCHANGED <<auth, devices, device, logged_in, files, cmd, stage, via, sinks, passed>>
    /\ \E st \in TwoFactorStatuses \cup DeviceStatuses :
      \E typed \in IF st.device THEN {""} ELSE Codes :
        LET answer == IF Collaborator(st) = "authenticator.resolve"
                      THEN authenticator_resolve(auth, mnemonic_file, st)
                      ELSE twofac_resolve(st, typed)
        IN
        /\ Read(st)
        /\ caught' = {}
        /\ waited' = IF Collaborator(st) = "twofac_resolver.resolve" THEN {"code"}
                      ELSE IF DeviceAsked(auth, st) THEN {"device"} ELSE {}
        /\ IF answer.ok
           THEN /\ resolution' = Resolution(st, answer.value)
                /\ submitted' = Resolution(st, answer.value)
                /\ Calls(<<Collaborator(st), "auth_handler_resolve_code">>)
                /\ Loops
           ELSE /\ Calls(<<Collaborator(st)>>)
                /\ ResolverRaises(answer.error, <<>>)
                /\ Nothing

ResolveCall ==
    /\ AtRead /\ reads + 1 < MaxIter
    /\ selection' = <<>>
    /\ caught' = {}
    /\ waited' = {}
    /\ \E st \in CallStatuses : Read(st)
    /\ Calls(<<"auth_handler_call">>)
    /\ Loops
    /\ Nothing
    /\ UNCHANGED <<auth, devices, device, logged_in, files, cmd, stage, via, sinks, passed>>

\* a state the loop has no branch for: nothing is called, and the loop reads the
\* same status again and again
ResolveOther ==
    /\ AtRead /\ reads + 1 < MaxIter
    /\ selection' = <<>>
    /\ caught' = {}
    /\ waited' = {}
    /\ \E st \in OtherStatuses : Read(st)
    /\ Calls(<<>>)
    /\ Loops
    /\ Nothing
    /\ UNCHANGED <<auth, devices, device, logged_in, files, cmd, stage, via, sinks, passed>>

ResolveOtherAgain ==
    /\ pc = "resolving" /\ reads > 0 /\ called = <<>>
    /\ UNCHANGED vars

Next ==
    \/ NewProcess
    \/ Create
    \/ Register
    \/ SetMnemonic
    \/ WithLogin
    \/ RunBody
    \/ ResolveError
    \/ ResolveDone
    \/ ResolveRequestCode
    \/ ResolveResolveCode
    \/ ResolveCall
    \/ ResolveOther
    \/ ResolveOtherAgain

Spec == Init /\ [][Next]_vars

\* one pass of the while loop of _gdk_resolve: the steps of ResolveError,
\* ResolveDone, ResolveRequestCode, ResolveResolveCode, ResolveCall and
\* ResolveOther, each of which is enabled only at AtRead and reads the status
Pass == AtRead /\ reads' = reads + 1

\* _gdk_resolve is straight-line synchronous code in a single thread: once it
\* is at gdk.auth_handler_get_status the pass is made, the backend returning
\* from each call and the user or device answering each prompt
LiveSpec == Spec /\ WF_reads(Pass)

(***************************************************************************)
(* The claims.                                                             *)
(***************************************************************************)
Collaborators == {"select_auth_factor", "authenticator.resolve", "twofac_resolver.resolve"}

\* C1: when the statuses of a pending action are, in order, request_code,
\* resolve_code, call, done, the resolver has made exactly these calls in this
\* order: select_auth_factor, auth_handler_request_code, the resolve of the
\* authenticator or of the Two-Factor Resolver, auth_handler_resolve_code,
\* auth_handler_call; what it submits at request_code is the method selected
\* (one of those offered), what it submits at resolve_code is the resolution
\* obtained, and it returns the result of the done status.
C1_ScriptedRun ==
    /\ script_pos = Len(Script) =>
          /\ trace \in {<<"select_auth_factor", "auth_handler_request_code", c,
                          "auth_handler_resolve_code", "auth_handler_call">> :
                           c \in {"authenticator.resolve", "twofac_resolver.resolve"}}
          /\ called = <<>>
          /\ resolved = Returned([result |-> status.result])
          /\ (stage = "body" => outcome = Returned([result |-> status.result]))
    /\ (script_pos \in {1, 2} /\ pc = "resolving") =>
          /\ Len(called) = 2
          /\ submitted = resolution
          /\ (script_pos = 1 => \E i \in DOMAIN status.methods : submitted = [factor |-> status.methods[i]])

C1_Witness ==
    /\ script_pos = Len(Script)
    /\ pc = "idle"
    /\ stage = "body"
    /\ outcome = Returned([result |-> "r2"])

\* C2 as claimed: the resolver stops only at done or error.
C2_StopsOnlyAtDoneOrError ==
    resolved.kind # "none" => status.status \in {"done", "error"}

\* C2, amended: the resolver stops only at done, at error, or when the
\* collaborator it consults at request_code or resolve_code raises (then that
\* collaborator call is the only call of the iteration and nothing is
\* submitted).  At error it raises at once with the whole status as payload
\* and makes no call; it returns a value only at done, and the value is the
\* result of the done status.
C2_Stops ==
    /\ pc = "resolving" => resolved.kind = "none"
    /\ resolved.kind = "returned" =>
          /\ status.status = "done"
          /\ resolved.value = [result |-> status.result]
          /\ called = <<>>
    /\ status.status = "error" =>
          /\ resolved = Raised("RuntimeError", status)
          /\ outcome = resolved
          /\ called = <<>>
          /\ pc = "idle"
    /\ (resolved.kind = "raised" /\ status.status # "error") =>
          /\ status.status \in {"request_code", "resolve_code"}
          /\ Len(called) = 1
          /\ called[1] \in Collaborators
          /\ submitted = <<>>
          /\ pc = "idle"

C2_Witness ==
    /\ status.status = "error"
    /\ resolved.kind = "raised"
    /\ stage = "login"
    /\ ~logged_in

\* C3: at every resolve_code status, for each of the three authenticators, the
\* resolver turns to exactly one collaborator, the authenticator's resolve when
\* the status has a device and the Two-Factor Resolver otherwise, and the value
\* that collaborator returns is the value passed to auth_handler_resolve_code.
C3_OneCollaborator ==
    status.status = "resolve_code" =>
        /\ Len(called) \in {1, 2}
        /\ called[1] = IF status.device THEN "authenticator.resolve"
                       ELSE "twofac_resolver.resolve"
        /\ Len(called) = 1 => resolved.kind = "raised" /\ submitted = <<>>
        /\ Len(called) = 2 =>
              /\ called[2] = "auth_handler_resolve_code"
              /\ submitted = resolution
              /\ IF status.device
                 THEN resolution = authenticator_resolve(auth, mnemonic_file, status).value
                 ELSE \E c \in Codes : resolution = [code |-> c]

C3_Witness ==
    /\ status.status = "resolve_code"
    /\ status.device
    /\ status.action = "sign_tx"
    /\ auth = "wally"
    /\ Len(called) = 2
    /\ Len(submitted.signatures) = 2

(***************************************************************************)
(* What the claims say of phrases, stated without the code's split and     *)
(* join: the words of a phrase are its maximal runs of letters.            *)
(***************************************************************************)
WordRuns(s) ==
    {r \in (1..Len(s)) \X (1..Len(s)) :
        /\ r[1] <= r[2]
        /\ \A k \in r[1]..r[2] : s[k] \notin Whitespace
        /\ (r[1] = 1 \/ s[r[1] - 1] \in Whitespace)
        /\ (r[2] = Len(s) \/ s[r[2] + 1] \in Whitespace)}

WordsOf(s) ==
    [k \in 1..Cardinality(WordRuns(s)) |->
        LET r == CHOOSE r \in WordRuns(s) :
                    Cardinality({q \in WordRuns(s) : q[1] < r[1]}) = k - 1
        IN  SubSeq(s, r[1], r[2])]

\* p is raw with each run of whitespace made one space and the whitespace at
\* both ends removed
NormalFormOf(p, raw) ==
    /\ WordsOf(p) = WordsOf(raw)
    /\ \A i \in 1..Len(p) :
          p[i] \in Whitespace => /\ p[i] = " "
                                 /\ 1 < i /\ i < Len(p)
                                 /\ p[i + 1] \notin Whitespace

\* the normal form of each phrase that can be typed
NormalForm == [raw \in RawPhrases |-> CHOOSE p \in RawPhrases : NormalFormOf(p, raw)]

\* the phrases that, normalised, the checksum validation accepts
PhrasesPassing == {raw \in RawPhrases : NormalForm[raw] \in ValidPhrases}

PassesValidation(raw) == raw \in PhrasesPassing

\* this step is the command cmd'.name, started from the prompt
Runs(name) == pc = "idle" /\ cmd'.name = name

\* this step calls the store of the Mnemonic Store
StoreAttempted ==
    \/ Runs("create") /\ auth # "hardware"
    \/ Runs("setmnemonic") /\ auth = "default" /\ PassesValidation(cmd'.phrase)

\* C4: a store (by create or setmnemonic) made while the mnemonic file of an
\* earlier store is still there fails with the refused-overwrite error and
\* leaves the file, content and mode, as the earlier store wrote it.
C4_SecondStoreRefused ==
    [][(StoreAttempted /\ mnemonic_file.exists) =>
          /\ outcome' = Raised("RefusedOverwrite", <<>>)
          /\ pc' = "idle"
          /\ mnemonic_file' = mnemonic_file]_vars

C4_Witness ==
    /\ cmd.name = "create"
    /\ outcome.error = "RefusedOverwrite"
    /\ mnemonic_file.exists
    /\ mnemonic_file.content # cmd.phrase

\* this step makes a gdk login call for the software authenticator
LoginCalled == pc = "idle" /\ auth = "default" /\ via' # "none"

\* C5 as claimed: once setpin has succeeded (the PIN data file exists from then
\* on), every login uses login_with_pin.
C5_EveryLaterLoginUsesPin ==
    [][(LoginCalled /\ pin_data_file.exists) => via' = "login_with_pin"]_vars

\* C5, amended: after setpin succeeds the PIN data file holds the blob the
\* backend returned and the mnemonic file is absent; from then on every login
\* of the software authenticator made while no mnemonic file has been stored
\* again (by create or setmnemonic) uses login_with_pin and passes no mnemonic
\* to the backend.
C5_PinMigration ==
    /\ []((cmd.name = "setpin" /\ outcome.kind = "returned") =>
             /\ pin_data_file.exists
             /\ pin_data_file.content = outcome.value
             /\ outcome.value.pin = cmd.pin
             /\ ~mnemonic_file.exists)
    /\ [][(LoginCalled /\ pin_data_file.exists /\ ~mnemonic_file.exists) =>
             /\ via' = "login_with_pin"
             /\ sinks' = {}]_vars

C5_Witness ==
    /\ via = "login_with_pin"
    /\ logged_in
    /\ pc = "body"
    /\ ~mnemonic_file.exists

\* C6 as claimed: no command sends a seed phrase anywhere but to the mnemonic
\* file.
C6_NoSink == sinks = {}

\* where the software authenticator sends the phrase in each command: login
\* (before a login command's body), register and create pass it to the backend,
\* setpin prints it and passes it to the backend's set_pin, setmnemonic logs it
\* under --debug
SoftwareSinks(name) ==
    CASE name = "setpin"      -> {"backend", "console"}
      [] name = "setmnemonic" -> {"log"}
      [] name = "none"        -> {}
      [] OTHER                -> {"backend"}

\* C6, amended: no command of the device-backed authenticators (wally,
\* hardware) sends a seed phrase anywhere but to the mnemonic file; the
\* software authenticator sends it to the backend (login, register, create,
\* setpin), to the console (setpin) and to the debug log (setmnemonic), and
\* nowhere else.
C6_DeviceVariantsNoSink ==
    /\ auth \in {"wally", "hardware"} => sinks = {}
    /\ auth = "default" => sinks \subseteq SoftwareSinks(cmd.name)

C6_Witness ==
    /\ auth = "wally"
    /\ cmd.name = "signtransaction"
    /\ logged_in
    /\ mnemonic_file.exists
    /\ status.action = "sign_tx"
    /\ Len(called) = 2

\* the inputs a sign_tx request has signed
SignedInputs(st) ==
    IF st.required_data.used_utxos # <<>> THEN st.required_data.used_utxos
    ELSE st.required_data.old_used_utxos

\* C7: a sign_tx request to the wally authenticator with an input, at any
\* position, whose script type is not a segwit one fails: the resolver gets no
\* signature, submits nothing to the backend and the command ends with the
\* error, which is the unsupported-input error (NotImplementedError) whenever
\* the mnemonic file is there to sign the inputs before it.
C7_NonWitnessInput ==
    (/\ auth = "wally"
     /\ status.status = "resolve_code" /\ status.device /\ status.action = "sign_tx"
     /\ \E i \in DOMAIN SignedInputs(status) :
            SignedInputs(status)[i].script_type \notin SegwitScriptTypes) =>
        /\ resolved.kind = "raised"
        /\ mnemonic_file.exists => resolved.error = "NotImplementedError"
        /\ outcome = resolved
        /\ pc = "idle"
        /\ called = <<"authenticator.resolve">>
        /\ resolution = <<>>
        /\ submitted = <<>>

C7_Witness ==
    /\ auth = "wally"
    /\ mnemonic_file.exists
    /\ status.action = "sign_tx"
    /\ status.required_data.used_utxos = <<UtxoA, UtxoC>>
    /\ resolved.error = "NotImplementedError"

\* C8: setmnemonic with a phrase that fails the validation fails, with the
\* invalid-mnemonic error for the authenticator that has setmnemonic, and the
\* mnemonic file (existence, content, mode) and the PIN data file are as before.
C8_InvalidMnemonicChangesNothing ==
    [][(Runs("setmnemonic") /\ ~PassesValidation(cmd'.phrase)) =>
          /\ files' = files
          /\ pc' = "idle"
          /\ outcome'.kind = "raised"
          /\ (auth = "default" => outcome'.error = "InvalidMnemonic")]_vars

C8_Witness ==
    /\ cmd.name = "setmnemonic"
    /\ outcome.error = "InvalidMnemonic"
    /\ mnemonic_file.exists

\* C9 as claimed: every phrase that passes the validation is accepted, and the
\* mnemonic file then holds it in normal form.
C9_ValidAlwaysAccepted ==
    [][(Runs("setmnemonic") /\ auth = "default" /\ PassesValidation(cmd'.phrase)) =>
          /\ outcome'.kind = "returned"
          /\ mnemonic_file'.exists
          /\ mnemonic_file'.content = NormalForm[cmd'.phrase]]_vars

\* C9, amended: every phrase that passes the validation is accepted by
\* setmnemonic unless a read-only mnemonic file is in place, and a load that
\* follows returns the phrase with each run of whitespace made one space and
\* the whitespace at both ends removed; with a read-only mnemonic file in place
\* setmnemonic is refused and the file keeps the old phrase.
C9_ValidAcceptedUnlessProtected ==
    [][(Runs("setmnemonic") /\ auth = "default" /\ PassesValidation(cmd'.phrase)) =>
          IF mnemonic_file.exists /\ mnemonic_file.mode = "r"
          THEN /\ outcome' = Raised("RefusedOverwrite", <<>>)
               /\ mnemonic_file' = mnemonic_file
          ELSE /\ outcome'.kind = "returned"
               /\ mnemonic_file'.exists
               /\ mnemonic_file'.content = NormalForm[cmd'.phrase]]_vars

C9_Witness ==
    /\ cmd.name = "setmnemonic"
    /\ outcome.kind = "returned"
    /\ mnemonic_file.content = <<"a", " ", "a">>
    /\ cmd.phrase = <<"a", "\n", "a">>

\* C10: after a store that completed (in create, in setmnemonic) the mnemonic
\* file holds the stored phrase and is owner-read-only, and no mnemonic file is
\* ever writable.
C10_StoredReadOnly ==
    /\ (cmd.name = "setmnemonic" /\ outcome.kind = "returned") =>
          /\ mnemonic_file.exists
          /\ mnemonic_file.content = NormalForm[cmd.phrase]
          /\ mnemonic_file.mode = "r"
    /\ (cmd.name = "create" /\ stage = "body") => mnemonic_file = File(cmd.phrase, "r")
    /\ mnemonic_file.exists => mnemonic_file.mode = "r"

C10_Witness ==
    /\ cmd.name = "create"
    /\ pc = "resolving"
    /\ mnemonic_file = File(cmd.phrase, "r")

\* the process was started with --auth hardware
HardwareRequested == auth \in {"hardware", "none"}

\* the process ended at its start with this error and no device was picked
StartFailed(e) == auth = "none" /\ outcome = Raised(e, <<>>) /\ device = NoDevice

\* C11 as claimed: zero devices enumerated fail with the no-devices error, more
\* than one with an explicit rejection and no device picked, exactly one gives
\* the authenticator for that device.
C11_DeviceSelection ==
    HardwareRequested =>
        /\ Len(devices) = 0 => StartFailed("NoDevices")
        /\ Len(devices) > 1 => StartFailed("NotImplementedError")
        /\ Len(devices) = 1 => auth = "hardware" /\ device = devices[1]

\* C11, amended: zero devices enumerated fail with the no-devices error, more
\* than one with an explicit rejection and no device picked; exactly one gives
\* the authenticator for that device when its entry reports no error, and
\* fails with the device error, with no authenticator, when it reports one.
C11_DeviceSelectionUnlessError ==
    HardwareRequested =>
        /\ Len(devices) = 0 => StartFailed("NoDevices")
        /\ Len(devices) > 1 => StartFailed("NotImplementedError")
        /\ Len(devices) = 1 =>
              IF "error" \in DOMAIN devices[1]
              THEN StartFailed("DeviceError")
              ELSE auth = "hardware" /\ device = devices[1]

C11_Witness ==
    /\ auth = "hardware"
    /\ devices = <<Trezor>>
    /\ device = Trezor
    /\ logged_in

\* the status read is a device request the variant's resolve does not
\* implement: an action other than the three, or sign_tx on the hardware variant
UnsupportedRequest ==
    /\ status.status = "resolve_code" /\ status.device
    /\ auth \in {"wally", "hardware"}
    /\ \/ status.required_data.action \notin {"get_xpubs", "sign_message", "sign_tx"}
       \/ status.required_data.action = "sign_tx" /\ auth = "hardware"

\* C12: the device-action resolution of the wally and hardware variants fails
\* with NotImplementedError for every action other than get_xpubs, sign_message
\* and sign_tx, and for sign_tx on the hardware variant; the resolver then has
\* no response, submits nothing to the backend for that status, and the command
\* has ended with the error (the resolver reads no further status).
C12_UnsupportedAction ==
    UnsupportedRequest =>
        /\ resolved = Raised("NotImplementedError", <<>>)
        /\ outcome = resolved
        /\ pc = "idle"
        /\ called = <<"authenticator.resolve">>
        /\ resolution = <<>>
        /\ submitted = <<>>

C12_Witness ==
    /\ auth = "hardware"
    /\ stage = "body"
    /\ status.required_data.action = "sign_tx"
    /\ status.required_data.used_utxos = <<UtxoA>>
    /\ resolved.error = "NotImplementedError"

\* the last step of the resolver handled a status of one of these states
Handled(states) == reads > 0 /\ status.status \in states

C14_NothingCaught == cmd.name # "none" => caught = {}

\* C14, amended: an error raised by the filesystem ends the command with a
\* failure, with three exceptions: the process, when its config directory is
\* already there, goes on after FileExistsError; setmnemonic, when its argument
\* cannot be opened as a file, takes the argument itself as the phrase; and the
\* default authenticator's login, when the mnemonic file cannot be read, goes
\* on to the PIN data (and fails with the IOError of the PIN-data file when that
\* is absent too).  The only advancing backend call the resolver makes without
\* a new input is auth_handler_call, at a call status.
C14_CaughtOnlyTwice ==
    /\ caught \subseteq {"os.makedirs(config_dir)", "open(argument)", "open(mnemonic_file)"}
    /\ "os.makedirs(config_dir)" \in caught => cmd.name = "none"
    /\ "open(argument)" \in caught => cmd.name = "setmnemonic"
    /\ "open(mnemonic_file)" \in caught =>
          /\ auth = "default" /\ ~mnemonic_file.exists
          /\ IF pin_data_file.exists THEN via = "login_with_pin"
             ELSE via = "none" /\ pc = "idle" /\ outcome = Raised("IOError", CallCreateHint)
    /\ resolved.kind = "raised" => outcome = resolved /\ pc = "idle"
    /\ (cmd.name = "register" /\ auth = "default" /\ ~mnemonic_file.exists) =>
          outcome = Raised("IOError", <<>>) /\ pc = "idle" /\ reads = 0
    /\ (/\ auth = "wally" /\ ~mnemonic_file.exists
        /\ Handled({"resolve_code"}) /\ status.device
        /\ \/ status.required_data.action = "get_xpubs" /\ status.required_data.paths # <<>>
           \/ status.required_data.action = "sign_message") =>
          resolved = Raised("IOError", <<>>) /\ called = <<"authenticator.resolve">>
    /\ (\E i \in DOMAIN called : called[i] = "auth_handler_call") =>
          status.status = "call" /\ called = <<"auth_handler_call">>

C14_Witness ==
    /\ auth = "wally"
    /\ status.required_data.action = "sign_message"
    /\ resolved = Raised("IOError", <<>>)
    /\ stage = "login"

\* the command ended with the error of a file that is not there
NotFound == outcome.kind = "raised" /\ outcome.error = "IOError"

\* C15 as claimed: for the default and the wally authenticator, an operation
\* that fails for a missing file fails with the hint to call create, no backend
\* login has been made and the session is not logged in.
C15_NotFoundWithHint ==
    (auth \in {"default", "wally"} /\ NotFound) =>
        /\ outcome.value = [printed |-> "Login failed, please call create"]
        /\ via = "none"
        /\ ~logged_in

\* C15, amended: a login of the default authenticator with neither a mnemonic
\* file nor a PIN-data file fails with IOError after the hint to call create,
\* makes no backend login and leaves the session not logged in.  Every other
\* operation that needs the absent mnemonic file fails with IOError without the
\* hint: register and setpin of the default authenticator, and the wally
\* authenticator's answer to a device request, which during a login comes after
\* the backend login was made (the session stays not logged in).
C15_NotFound ==
    /\ [][(/\ pc = "idle" /\ auth = "default" /\ ~logged_in
           /\ cmd'.name \in LoginCommands
           /\ ~mnemonic_file.exists /\ ~pin_data_file.exists) =>
              /\ outcome' = Raised("IOError", [printed |-> "Login failed, please call create"])
              /\ pc' = "idle"
              /\ via' = "none"
              /\ ~logged_in'
              /\ reads' = 0]_vars
    /\ [](NotFound =>
            /\ ~mnemonic_file.exists
            /\ IF outcome.value # <<>>
               THEN /\ auth = "default" /\ cmd.name \in LoginCommands
                    /\ ~pin_data_file.exists /\ via = "none" /\ ~logged_in
               ELSE \/ auth = "default" /\ cmd.name \in {"register", "setpin"}
                    \/ /\ auth = "wally" /\ resolved = outcome /\ status.device
                       /\ stage = "login" => via = "login" /\ ~logged_in)

C15_Witness ==
    /\ outcome = Raised("IOError", [printed |-> "Login failed, please call create"])
    /\ cmd.name = "signtransaction"
    /\ caught = {"open(mnemonic_file)"}

\* the descriptor {'device': {'name': n}}
DescriptorNaming(n) == <<"device", <<"name", n>>>>

\* C16: every gdk.login and every gdk.register_user call of the wally and the
\* hardware authenticator passes an empty mnemonic, an empty password and a
\* descriptor that names the device (the wally signer's name, the hardware
\* wallet's type@path), with or without a mnemonic file; the calls of the
\* software authenticator pass the empty descriptor, an empty password and the
\* phrase stored in the mnemonic file.
C16_Credentials ==
    /\ via = "login" <=> passed.call = "login"
    /\ (cmd.name \in {"register", "create"} /\ pc = "resolving") => passed.call = "register_user"
    /\ passed.call # "none" =>
          /\ passed.password = ""
          /\ auth = "wally" =>
                /\ passed.mnemonic = <<>>
                /\ passed.hw_device = DescriptorNaming(<<"libwally software signer">>)
          /\ auth = "hardware" =>
                /\ passed.mnemonic = <<>>
                /\ device \in {Ledger, Trezor}
                /\ passed.hw_device = DescriptorNaming(<<device.type, "@", device.path>>)
          /\ auth = "default" =>
                /\ passed.hw_device = <<>>
                /\ passed.mnemonic \in ValidPhrases
                /\ IF mnemonic_file.exists
                   THEN passed.mnemonic = mnemonic_file.content
                   ELSE /\ pin_data_file.exists
                        /\ pin_data_file.content.encrypted = passed.mnemonic

C16_Witness ==
    /\ auth = "wally"
    /\ ~mnemonic_file.exists
    /\ passed.call = "login"
    /\ logged_in

\* the resolver has answered a device request for this action
Answered(action) ==
    /\ Handled({"resolve_code"}) /\ status.device
    /\ status.required_data.action = action

\* the key the seed of the mnemonic file gives at a path: the master key, and
\* one child derivation for each index of the path
KeyAt(path) == [seed |-> mnemonic_file.content, chain |-> path]

\* C17: for a sign_tx request whose inputs are all segwit, the wally
\* authenticator (its mnemonic file in place) answers with one signature for
\* each input, the signature at position i being that of input i, made with the
\* key at that input's user_path over its index, prevout_script and satoshi;
\* the inputs are used_utxos, or old_used_utxos when used_utxos is empty; the
\* resolver submits exactly these signatures.
C17_SignaturesPerInput ==
    LET inputs == SignedInputs(status) IN
    (/\ auth = "wally" /\ Answered("sign_tx")
     /\ \A i \in DOMAIN inputs : inputs[i].script_type \in {14, 15, 159, 162}
     /\ mnemonic_file.exists \/ inputs = <<>>) =>
        /\ called = <<"authenticator.resolve", "auth_handler_resolve_code">>
        /\ submitted = resolution
        /\ Len(submitted.signatures) = Len(inputs)
        /\ \A i \in DOMAIN inputs :
              submitted.signatures[i] =
                  [key |-> KeyAt(inputs[i].user_path),
                   signed |-> <<"tx", i - 1, inputs[i].prevout_script, inputs[i].satoshi>>,
                   sighash |-> 1]

C17_Witness ==
    /\ auth = "wally" /\ Answered("sign_tx")
    /\ status.required_data.used_utxos = <<>>
    /\ status.required_data.old_used_utxos = <<UtxoB>>
    /\ Len(called) = 2
    /\ Len(submitted.signatures) = 1

\* C18: a get_xpubs request with paths p1..pn is answered with n xpubs, the
\* i-th being the xpub of pi (for the wally authenticator that of the key at
\* pi, which for the empty path is the master key; for the hardware wallet the
\* one it gives for 'm/...'), for n = 0 and for repeated paths too; the
\* resolver submits exactly this list.
C18_XpubsInOrder ==
    LET paths == status.required_data.paths IN
    (/\ auth \in {"wally", "hardware"} /\ Answered("get_xpubs")
     /\ auth = "wally" => mnemonic_file.exists \/ paths = <<>>) =>
        /\ called = <<"authenticator.resolve", "auth_handler_resolve_code">>
        /\ submitted = resolution
        /\ Len(submitted.xpubs) = Len(paths)
        /\ \A i \in DOMAIN paths :
              submitted.xpubs[i].xpub =
                  IF auth = "wally" THEN KeyAt(paths[i])
                  ELSE [device |-> "hwi", path |-> <<"m">> \o paths[i]]

C18_Witness ==
    /\ auth = "wally" /\ Answered("get_xpubs")
    /\ Len(called) = 2
    /\ status.required_data.paths = <<<<1, 2>>, <<>>, <<1, 2>>>>
    /\ submitted.xpubs[2].xpub = [seed |-> mnemonic_file.content, chain |-> <<>>]
    /\ submitted.xpubs[1] = submitted.xpubs[3]

\* select_auth_factor returned a factor, which the resolver requested a code for
Selected(factor) ==
    /\ called = <<"select_auth_factor", "auth_handler_request_code">>
    /\ submitted = [factor |-> factor]

\* C19 as stated: at a request_code status, select_auth_factor shows the
\* enumerated choice and waits for a selection when more than one method is
\* offered; otherwise it returns the sole method, nothing shown and nothing
\* waited for.
C19_SoleMethodOtherwise ==
    Handled({"request_code"}) =>
        IF Len(status.methods) > 1
        THEN waited = {"select"}
        ELSE waited = {} /\ Len(called) = 2 /\ Selected(status.methods[1])

\* C19, amended: with more than one method the choice is shown and waited for,
\* and what is returned is one of the methods; with exactly one method it is
\* returned, nothing shown and nothing waited for; with no method nothing is
\* shown or waited for either, and IndexError ends the command, no code having
\* been requested.
C19_SoleMethodIfAny ==
    Handled({"request_code"}) =>
        /\ waited = IF Len(status.methods) > 1 THEN {"select"} ELSE {}
        /\ Len(status.methods) > 1 =>
              \/ Len(called) = 2 /\ \E i \in DOMAIN status.methods : Selected(status.methods[i])
              \/ called = <<"select_auth_factor">> /\ resolved.kind = "raised"
                    /\ resolved.error \in {"ValueError", "IndexError"}
        /\ Len(status.methods) = 1 => Len(called) = 2 /\ Selected(status.methods[1])
        /\ Len(status.methods) = 0 =>
              /\ called = <<"select_auth_factor">>
              /\ resolved = Raised("IndexError", <<>>)
              /\ outcome = resolved

C19_Witness ==
    /\ Handled({"request_code"}) /\ status.methods = <<"sms">>
    /\ waited = {} /\ Len(called) = 2 /\ submitted = [factor |-> "sms"]

\* the gdk calls that advance an auth handler
AdvancingCalls == {"auth_handler_request_code", "auth_handler_resolve_code", "auth_handler_call"}

\* the advancing calls among the calls of an iteration, in order
Advancing(made) == SelectSeq(made, LAMBDA c : c \in AdvancingCalls)

\* the advancing call _gdk_resolve makes for a state
AdvanceFor(state) ==
    CASE state = "request_code" -> "auth_handler_request_code"
      [] state = "resolve_code" -> "auth_handler_resolve_code"
      [] state = "call" -> "auth_handler_call"

\* C20: after reading a request_code, resolve_code or call status the resolver
\* makes at most one advancing call, of the kind of the status read and after
\* any collaborator; it makes exactly that one whenever it goes on to read the
\* status again; and at a call status the call is all it does: no collaborator
\* is consulted, nothing is waited for and nothing submitted.
C20_OneAdvancingCall ==
    /\ [](Handled({"request_code", "resolve_code", "call"}) =>
            /\ Advancing(called) \in {<<>>, <<AdvanceFor(status.status)>>}
            /\ pc = "resolving" =>
                  /\ Advancing(called) = <<AdvanceFor(status.status)>>
                  /\ called[Len(called)] = AdvanceFor(status.status)
            /\ status.status = "call" =>
                  /\ called = <<"auth_handler_call">>
                  /\ waited = {} /\ submitted = <<>> /\ pc = "resolving")
    /\ [][(/\ pc = "resolving" /\ reads' = reads + 1
           /\ Handled({"request_code", "resolve_code", "call"})) =>
             Advancing(called) = <<AdvanceFor(status.status)>>]_vars

C20_Witness ==
    /\ Handled({"call"}) /\ reads = 3 /\ script_pos = 3
    /\ called = <<"auth_handler_call">>
    /\ trace = <<"select_auth_factor", "auth_handler_request_code",
                 "twofac_resolver.resolve", "auth_handler_resolve_code", "auth_handler_call">>

\* the loop has read a status it has no branch for, and reads it over and over
Spinning ==
    /\ pc = "resolving" /\ reads > 0 /\ called = <<>>
    /\ status.status \notin {"done", "error", "request_code", "resolve_code", "call"}

\* a pass of the loop that reads a status
Reads == pc = "resolving" /\ reads' = reads + 1

\* the run of _gdk_resolve ends
Leaves == pc = "resolving" /\ pc' # "resolving"

\* C21 as stated: a run whose status becomes done or error after finitely many
\* advancing calls ends, and a run ends in no other way than by reading done
\* or error.
C21_EndsOnlyAtTerminal ==
    /\ (pc = "resolving") ~> (pc # "resolving" \/ Spinning)
    /\ [][Leaves => status'.status \in {"done", "error"}]_vars

\* C21, amended: with a backend that gives a terminal status after finitely
\* many advancing calls, every run ends unless it has read a status outside
\* the five, at which it spins for ever; a pass that reads done or error ends
\* the run; a run ends only so or by the exception of a collaborator consulted
\* at request_code or resolve_code; and a pass that reads any other status,
\* no collaborator raising, leaves the loop running.
C21_EndsAtTerminalOrException ==
    /\ (pc = "resolving") ~> (pc # "resolving" \/ Spinning)
    /\ [][Spinning => Spinning']_vars
    /\ [][(Reads /\ status'.status \in {"done", "error"}) => Leaves]_vars
    /\ [][Leaves =>
            /\ Reads
            /\ \/ status'.status \in {"done", "error"}
               \/ /\ status'.status \in {"request_code", "resolve_code"}
                  /\ resolved'.kind = "raised"
                  /\ Len(called') = 1 /\ called'[1] \in Collaborators]_vars
    /\ [][(Reads /\ status'.status \notin {"done", "error"} /\ resolved'.kind # "raised")
            => pc' = "resolving"]_vars

C21_Witness ==
    /\ reads = 4 /\ status.status = "done"
    /\ resolved.kind = "returned" /\ pc # "resolving"
    /\ stage = "login" /\ logged_in
    /\ trace = <<"select_auth_factor", "auth_handler_request_code",
                 "twofac_resolver.resolve", "auth_handler_resolve_code", "auth_handler_call">>

\* a command wrapped by with_login starts and calls authenticator.login, which
\* calls gdk.login or gdk.login_with_pin unless it finds neither file
CallsLogin ==
    /\ pc = "idle" /\ cmd'.name \in LoginCommands
    /\ via' # "none" \/ "open(mnemonic_file)" \in caught'

\* green() makes a new context
NewContext == pc = "idle" /\ cmd'.name = "none"

\* C22: within one context, authenticator.login is called only while
\* context.logged_in is false; the flag becomes true only when the login's auth
\* handler is resolved to done or login_with_pin has returned, and then the
\* command body is what runs next; it stays true for the rest of the context,
\* so at most one login succeeds; and a login that ends in an error status or
\* an exception leaves the flag false and ends the command, its body not run.
C22_LoginOnce ==
    /\ [][CallsLogin => ~logged_in]_vars
    /\ [][(cmd'.name \in LoginCommands /\ pc = "idle" /\ logged_in) =>
            pc' = "body" /\ reads' = 0 /\ logged_in']_vars
    /\ [][(~logged_in /\ logged_in') =>
            /\ pc' = "body" /\ cmd'.name \in LoginCommands
            /\ \/ /\ pc = "resolving" /\ stage = "login" /\ via = "login"
                  /\ status'.status = "done" /\ resolved'.kind = "returned"
               \/ pc = "idle" /\ via' = "login_with_pin"]_vars
    /\ [][(logged_in /\ ~logged_in') => NewContext]_vars
    /\ [][(pc = "resolving" /\ stage = "login" /\ resolved'.kind = "raised") =>
            ~logged_in /\ ~logged_in' /\ pc' = "idle" /\ outcome' = resolved']_vars
    /\ [][(CallsLogin /\ outcome'.kind = "raised") => ~logged_in' /\ pc' = "idle"]_vars
    /\ [](pc = "body" => logged_in /\ cmd.name \in LoginCommands)

C22_Witness ==
    /\ logged_in /\ pc = "body" /\ via = "none"
    /\ cmd.name = "getbalance" /\ reads = 0

\* the mnemonic file is there and is not writable
Protected(f) == f.exists /\ f.mode = "r"

\* C23: create, for the authenticators that have it, writes the generated
\* mnemonic to the mnemonic file and only then calls register_user: when the
\* call is made the file holds the phrase, read-only, and the mnemonic the
\* software authenticator registers is the one read back from the file; when a
\* protected mnemonic file is in place the store is refused, register_user is
\* not called, no auth handler is resolved and the file is as it was; and for
\* as long as the registration is being resolved the file holds the phrase.
C23_StoreBeforeRegister ==
    /\ [][(Runs("create") /\ auth # "hardware") =>
            IF Protected(mnemonic_file)
            THEN /\ outcome' = Raised("RefusedOverwrite", <<>>)
                 /\ passed'.call = "none" /\ sinks' = {}
                 /\ pc' = "idle" /\ reads' = 0
                 /\ mnemonic_file' = mnemonic_file
            ELSE /\ mnemonic_file' = [exists |-> TRUE, content |-> cmd'.phrase, mode |-> "r"]
                 /\ passed'.call = "register_user"
                 /\ auth = "default" => passed'.mnemonic = mnemonic_file'.content
                 /\ pc' = "resolving" /\ stage' = "body"]_vars
    /\ []((cmd.name = "create" /\ passed.call = "register_user") =>
            /\ mnemonic_file.exists
            /\ mnemonic_file.content = cmd.phrase
            /\ auth = "default" => passed.mnemonic = cmd.phrase)
    /\ []((cmd.name = "create" /\ passed.call = "none") =>
            pc = "idle" /\ outcome.kind = "raised" /\ reads = 0)

C23_Witness ==
    /\ cmd.name = "create" /\ auth = "default"
    /\ passed.call = "register_user" /\ passed.mnemonic = <<"a", " ", "a">>
    /\ mnemonic_file = [exists |-> TRUE, content |-> <<"a", " ", "a">>, mode |-> "r"]
    /\ status.status = "done" /\ outcome.kind = "returned"

\* the wallet has a stored credential: the mnemonic file or the PIN-data file
HasCredential == mnemonic_file.exists \/ pin_data_file.exists

\* the step is the body of setpin, which with_login calls once logged in
SetpinBody == pc = "body" /\ cmd.name = "setpin"

\* C24: the mnemonic file is removed only by a setpin of the default
\* authenticator whose set_pin call returned and whose PIN data, made from the
\* phrase of the file, is written to the PIN-data file in the same call; a
\* setpin that fails changes neither file; no step takes the last stored
\* credential away; and whenever the body of setpin runs or has run for the
\* default authenticator, at least one of the two files exists.
C24_CredentialKept ==
    /\ [][(mnemonic_file.exists /\ ~mnemonic_file'.exists) =>
            /\ SetpinBody /\ auth = "default"
            /\ outcome'.kind = "returned"
            /\ pin_data_file'.exists
            /\ pin_data_file'.content = outcome'.value
            /\ pin_data_file'.content = [encrypted |-> mnemonic_file.content, pin |-> cmd.pin]]_vars
    /\ [][(SetpinBody /\ outcome'.kind = "raised") =>
            mnemonic_file' = mnemonic_file /\ pin_data_file' = pin_data_file]_vars
    /\ [][HasCredential => HasCredential']_vars
    /\ []((cmd.name = "setpin" /\ auth = "default" /\ logged_in) => HasCredential)
    /\ [](SetpinBody => logged_in)

C24_Witness ==
    /\ cmd.name = "setpin" /\ auth = "default" /\ logged_in /\ pc = "idle"
    /\ outcome = Raised("RuntimeError", <<>>) /\ via = "none"
    /\ mnemonic_file.exists /\ ~pin_data_file.exists

\* the selection typed names a member of a list of n > 1 factors: an integer
\* from 0 to n - 1, or from -n to -1 counting from the end
Selectable(n) ==
    /\ selection # <<>>
    /\ selection[1].numeric
    /\ selection[1].n \in (-n)..(n - 1)

\* C25: at a request_code status, whatever the user types, what the resolver
\* passes to auth_handler_request_code is one of status['methods']: the sole
\* method of a list of one, the method at the index typed for a longer list;
\* and when no method can be selected (no method offered, an index out of
\* range, a selection that is no integer) the resolver raises, having called
\* select_auth_factor only, and passes nothing to the backend.
C25_SubmitsOfferedMethod ==
    Handled({"request_code"}) =>
        LET n == Len(status.methods)
            k == IF n > 1 /\ selection # <<>> THEN selection[1].n ELSE 0
        IN
        /\ (selection # <<>>) <=> (n > 1)
        /\ IF n = 1 \/ (n > 1 /\ Selectable(n))
           THEN /\ called = <<"select_auth_factor", "auth_handler_request_code">>
                /\ submitted = [factor |-> status.methods[IF k >= 0 THEN k + 1 ELSE n + k + 1]]
                /\ \E i \in DOMAIN status.methods : submitted.factor = status.methods[i]
                /\ pc = "resolving"
           ELSE /\ called = <<"select_auth_factor">>
                /\ submitted = <<>>
                /\ resolved.kind = "raised"
                /\ resolved.error = IF n > 1 /\ ~selection[1].numeric THEN "ValueError"
                                    ELSE "IndexError"
                /\ outcome = resolved /\ pc = "idle"

C25_Witness ==
    /\ Handled({"request_code"}) /\ status.methods = <<"sms", "gauth">>
    /\ selection = <<[numeric |-> TRUE, n |-> -1]>>
    /\ submitted = [factor |-> "gauth"]
    /\ called = <<"select_auth_factor", "auth_handler_request_code">>

=============================================================================
